---- MODULE Spec2Model ----
(***************************************************************************)
(* Model of generate_site.py: the change-detection and aggregation         *)
(* pipeline of the top-level site generator.                               *)
(*                                                                         *)
(* Encoding of values                                                      *)
(*   - Python None / JSON null / an absent dict key : <<>>   (None)        *)
(*   - a present optional value v                   : <<v>>  (Some(v))     *)
(*   - SQL NULL in a numeric column                 : -1     (NULL)        *)
(*   - SQL NULL in a text column                    : "<NULL>"             *)
(*   - ratings are kept in hundredths of a point (800 = 8.00), the         *)
(*     rounded avg_rating values in tenths (80 = 8.0)                      *)
(*   - an md5 hexdigest is the opaque value <<"md5", input>>: equal        *)
(*     inputs give equal digests and, on the bounded inputs used here,     *)
(*     different inputs give different digests                             *)
(***************************************************************************)
EXTENDS Integers, Sequences, FiniteSets, TLC

\* ------------------------------------------------------------------ bounds
MaxRuns == 3          \* invocations of generate_site in one behaviour
MaxEdits == 1         \* modifications of source files by other programs
MaxRows == 2          \* rows of a generated database
MaxRecentCount == 2   \* configured recent_items_count ranges over 1..MaxRecentCount and the default

\* ------------------------------------------------------- program constants
RecentLimit == 5          \* LIMIT 5 of the recent-items queries
DefaultRecentCount == 5   \* config['site'].get('recent_items_count', 5)

None == <<>>
Some(x) == <<x>>
NULL == -1
NULLSTR == "<NULL>"
MISSING == None               \* the file at db_path does not exist

\* ---------------------------------------------------------------- helpers
RECURSIVE SumSeq(_)
SumSeq(s) == IF s = <<>> THEN 0 ELSE Head(s) + SumSeq(Tail(s))

Range(s) == {s[k] : k \in 1..Len(s)}

Prefix(s, n) == SubSeq(s, 1, IF Len(s) < n THEN Len(s) ELSE n)

\* dict.get(key, default)
Get(d, key, default) == IF key \in DOMAIN d THEN d[key] ELSE default

\* Python truthiness of an optional number: None and 0 are falsy
Truthy(opt) == opt # None /\ opt[1] # 0

\* round(num/den, 1) with the quotient counted in tenths: the nearest integer
\* to num/den, an exact tie going to the even neighbour.  (On binary floats a
\* decimal tie can fall on either side; nothing stated below depends on it.)
RoundDiv(num, den) ==
    LET q == num \div den
        r == num % den
    IN  IF 2 * r < den THEN q
        ELSE IF 2 * r > den THEN q + 1
        ELSE IF q % 2 = 0 THEN q ELSE q + 1

\* ------------------------------------------------------- source databases
\* A source file is MISSING or Some(db).  db = [table, missing, rows]:
\*   table   the one table the file holds ("none": not a usable database)
\*   missing the columns of that table that do not exist, named by the row
\*           field they would hold
\*   rows    the rows in rowid order, each [name, rating, status, ts, grp]:
\*           name   title / album_name / show_name / restaurant_name
\*           rating rating (hundredths, NULL)
\*           status read_status / seen_status / visit_status
\*           ts     date_added / date_attended (NULL sorts last in DESC)
\*           grp    authors / artists / theater_name / location
Exists(f) == f # MISSING

Db(table, missing, rows) == Some([table |-> table, missing |-> missing, rows |-> rows])

Row(name, rating, status, ts, grp) ==
    [name |-> name, rating |-> rating, status |-> status, ts |-> ts, grp |-> grp]

\* cursor.execute succeeds: the table exists and so does every column used
QueryOk(f, table, fields) ==
    /\ f[1].table = table
    /\ fields \cap f[1].missing = {}

CountWhere(rows, status) == Len(SelectSeq(rows, LAMBDA r : r.status = status))

CountDistinctGrp(rows) == Cardinality({r.grp : r \in {x \in Range(rows) : x.grp # NULLSTR}})

\* SELECT AVG(rating): None on no row, else the fraction [sum, n]
SqlAvg(rows) ==
    LET rated == SelectSeq(rows, LAMBDA r : r.rating # NULL)
    IN  IF rated = <<>> THEN None
        ELSE Some([sum |-> SumSeq([k \in 1..Len(rated) |-> rated[k].rating]),
                   n |-> Len(rated)])

\* "if result['avg']: stats['avg_rating'] = round(result['avg'], 1)"
AvgRating(avg) ==
    IF avg # None /\ avg[1].sum # 0
    THEN Some(RoundDiv(avg[1].sum, 10 * avg[1].n))
    ELSE None

\* ORDER BY ts DESC: the first row of greatest ts, then the rest likewise
\* (rows of equal ts stay in rowid order)
RECURSIVE OrderByDesc(_)
OrderByDesc(rows) ==
    IF rows = <<>> THEN <<>>
    ELSE LET k == CHOOSE a \in 1..Len(rows) :
                    /\ \A b \in 1..Len(rows) : rows[b].ts <= rows[a].ts
                    /\ \A b \in 1..(a - 1) : rows[b].ts < rows[a].ts
         IN  <<rows[k]>> \o OrderByDesc(SubSeq(rows, 1, k - 1) \o SubSeq(rows, k + 1, Len(rows)))

\* ORDER BY ... DESC LIMIT 5
Recent(rows) == Prefix(OrderByDesc(rows), RecentLimit)

\* --------------------------------------------------------- parse_json_field
\* Python values met in an artists field: [t, v] with t in str, int, none
PyStr(s) == [t |-> "str", v |-> s]
PyInt(s) == [t |-> "int", v |-> s]
PyNone == [t |-> "none", v |-> ""]

\* json.loads on the raw strings the model uses: ok = FALSE when it raises
json_loads(value) ==
    CASE value = "[\"Ann\"]"            -> [ok |-> TRUE, list |-> TRUE, items |-> <<PyStr("Ann")>>]
      [] value = "[\"Ann\", \" Bob \"]" -> [ok |-> TRUE, list |-> TRUE, items |-> <<PyStr("Ann"), PyStr(" Bob ")>>]
      [] value = "[\" Bob \"]"          -> [ok |-> TRUE, list |-> TRUE, items |-> <<PyStr(" Bob ")>>]
      [] value = "[7]"                  -> [ok |-> TRUE, list |-> TRUE, items |-> <<PyInt("7")>>]
      [] value = "7"                    -> [ok |-> TRUE, list |-> FALSE, items |-> <<PyInt("7")>>]
      [] value = "\"Ann\""              -> [ok |-> TRUE, list |-> FALSE, items |-> <<PyStr("Ann")>>]
      [] value = "null"                 -> [ok |-> TRUE, list |-> FALSE, items |-> <<PyNone>>]
      [] OTHER                          -> [ok |-> FALSE, list |-> FALSE, items |-> <<>>]

parse_json_field(value) ==
    IF value = NULLSTR \/ value = "" THEN <<>>
    ELSE LET result == json_loads(value)
         IN  IF result.ok THEN result.items      \* the list, or [result]
             ELSE <<PyStr(value)>>                 \* except: [value]

PyTruthy(a) ==
    CASE a.t = "str"  -> a.v # ""
      [] a.t = "int"  -> a.v # "0"
      [] OTHER        -> FALSE

strip(s) == CASE s = " Bob " -> "Bob" [] s = " " -> "" [] OTHER -> s

\* --------------------------------------------------------------- extractors
\* A try body is evaluated to [stats, raised]: the stats dict as the body left
\* it, and whether it left by an exception.  "except Exception" swallows the
\* exception and the function returns the dict as it stands.
Ok(stats) == [stats |-> stats, raised |-> FALSE]
Raise(stats) == [stats |-> stats, raised |-> TRUE]
Swallow(r) == [stats |-> r.stats, raised |-> FALSE]

books_initial ==
    [available |-> FALSE, total_count |-> 0, read_count |-> 0, to_read_count |-> 0,
     avg_rating |-> None, recent_items |-> <<>>]

books_item(r) == [title |-> r.name, authors |-> r.grp, rating |-> r.rating, date_added |-> r.ts]

books_try(f) ==
    LET rows == f[1].rows
        s0 == books_initial
        s1 == [s0 EXCEPT !.total_count = Len(rows)]
        s2 == [s1 EXCEPT !.read_count = CountWhere(rows, "read")]
        s3 == [s2 EXCEPT !.to_read_count = CountWhere(rows, "to_read")]
        s4 == [s3 EXCEPT !.avg_rating = AvgRating(SqlAvg(rows))]
        s5 == [s4 EXCEPT !.recent_items = [k \in 1..Len(Recent(rows)) |-> books_item(Recent(rows)[k])]]
    IN  IF ~QueryOk(f, "books", {}) THEN Raise(s0)
        ELSE IF ~QueryOk(f, "books", {"status"}) THEN Raise(s1)
        ELSE IF ~QueryOk(f, "books", {"rating"}) THEN Raise(s3)
        ELSE IF ~QueryOk(f, "books", {"name", "grp", "rating", "ts"}) THEN Raise(s4)
        ELSE Ok([s5 EXCEPT !.available = TRUE])

\* mutant: the try has no except clause, the exception leaves the function
get_books_stats_no_except(f) ==
    IF ~Exists(f) THEN Ok(books_initial) ELSE books_try(f)

get_books_stats(f) ==
    IF ~Exists(f) THEN Ok(books_initial) ELSE Swallow(books_try(f))

albums_initial ==
    [available |-> FALSE, total_count |-> 0, artist_count |-> 0,
     avg_rating |-> None, recent_items |-> <<>>]

albums_item(r) ==
    [album_name |-> r.name, artists |-> r.grp, genre |-> "", rating |-> r.rating,
     date_added |-> r.ts, artists_list |-> parse_json_field(r.grp)]

\* the artists met by the loop over SELECT DISTINCT artists
ArtistAtoms(rows) ==
    UNION {Range(parse_json_field(v)) : v \in {r.grp : r \in Range(rows)} \ {NULLSTR}}

\* "if artist and artist.strip()": strip exists on str only
ArtistLoopRaises(rows) == \E a \in ArtistAtoms(rows) : PyTruthy(a) /\ a.t # "str"

artists_set(rows) ==
    {strip(a.v) : a \in {x \in ArtistAtoms(rows) : PyTruthy(x) /\ strip(x.v) # ""}}

albums_try(f) ==
    LET rows == f[1].rows
        s0 == albums_initial
        s1 == [s0 EXCEPT !.total_count = Len(rows)]
        s2 == [s1 EXCEPT !.artist_count = Cardinality(artists_set(rows))]
        s3 == [s2 EXCEPT !.avg_rating = AvgRating(SqlAvg(rows))]
        s4 == [s3 EXCEPT !.recent_items = [k \in 1..Len(Recent(rows)) |-> albums_item(Recent(rows)[k])]]
    IN  IF ~QueryOk(f, "albums", {}) THEN Raise(s0)
        ELSE IF ~QueryOk(f, "albums", {"grp"}) THEN Raise(s1)
        ELSE IF ArtistLoopRaises(rows) THEN Raise(s1)
        ELSE IF ~QueryOk(f, "albums", {"rating"}) THEN Raise(s2)
        ELSE IF ~QueryOk(f, "albums", {"name", "grp", "rating", "ts"}) THEN Raise(s3)
        ELSE Ok([s4 EXCEPT !.available = TRUE])

get_albums_stats(f) ==
    IF ~Exists(f) THEN Ok(albums_initial) ELSE Swallow(albums_try(f))

shows_initial ==
    [available |-> FALSE, total_count |-> 0, seen_count |-> 0, wishlist_count |-> 0,
     theater_count |-> 0, avg_rating |-> None, recent_items |-> <<>>]

shows_item(r) ==
    [show_name |-> r.name, theater_name |-> r.grp, date_attended |-> r.ts, rating |-> r.rating]

Seen(rows) == SelectSeq(rows, LAMBDA r : r.status = "seen")

shows_try(f) ==
    LET rows == f[1].rows
        s0 == shows_initial
        s1 == [s0 EXCEPT !.total_count = Len(rows)]
        s2 == [s1 EXCEPT !.seen_count = CountWhere(rows, "seen")]
        s3 == [s2 EXCEPT !.wishlist_count = CountWhere(rows, "wishlist")]
        s4 == [s3 EXCEPT !.theater_count = CountDistinctGrp(rows)]
        s5 == [s4 EXCEPT !.avg_rating = AvgRating(SqlAvg(Seen(rows)))]
        s6 == [s5 EXCEPT !.recent_items = [k \in 1..Len(Recent(Seen(rows))) |-> shows_item(Recent(Seen(rows))[k])]]
    IN  IF ~QueryOk(f, "shows", {}) THEN Raise(s0)
        ELSE IF ~QueryOk(f, "shows", {"status"}) THEN Raise(s1)
        ELSE IF ~QueryOk(f, "shows", {"grp"}) THEN Raise(s3)
        ELSE IF ~QueryOk(f, "shows", {"rating", "status"}) THEN Raise(s4)
        ELSE IF ~QueryOk(f, "shows", {"name", "grp", "ts", "rating", "status"}) THEN Raise(s5)
        ELSE Ok([s6 EXCEPT !.available = TRUE])

get_shows_stats(f) ==
    IF ~Exists(f) THEN Ok(shows_initial) ELSE Swallow(shows_try(f))

restaurants_initial ==
    [available |-> FALSE, total_count |-> 0, visited_count |-> 0, wishlist_count |-> 0,
     location_count |-> 0, avg_rating |-> None, recent_items |-> <<>>]

restaurants_item(r) ==
    [restaurant_name |-> r.name, location |-> r.grp, cuisine |-> "", rating |-> r.rating,
     date_added |-> r.ts]

Visited(rows) == SelectSeq(rows, LAMBDA r : r.status = "visited")

restaurants_try(f) ==
    LET rows == f[1].rows
        s0 == restaurants_initial
        s1 == [s0 EXCEPT !.total_count = Len(rows)]
        s2 == [s1 EXCEPT !.visited_count = CountWhere(rows, "visited")]
        s3 == [s2 EXCEPT !.wishlist_count = CountWhere(rows, "want_to_visit")]
        s4 == [s3 EXCEPT !.location_count = CountDistinctGrp(rows)]
        s5 == [s4 EXCEPT !.avg_rating = AvgRating(SqlAvg(Visited(rows)))]
        s6 == [s5 EXCEPT !.recent_items = [k \in 1..Len(Recent(rows)) |-> restaurants_item(Recent(rows)[k])]]
    IN  IF ~QueryOk(f, "restaurants", {}) THEN Raise(s0)
        ELSE IF ~QueryOk(f, "restaurants", {"status"}) THEN Raise(s1)
        ELSE IF ~QueryOk(f, "restaurants", {"grp"}) THEN Raise(s3)
        ELSE IF ~QueryOk(f, "restaurants", {"rating", "status"}) THEN Raise(s4)
        ELSE IF ~QueryOk(f, "restaurants", {"name", "grp", "rating", "ts"}) THEN Raise(s5)
        ELSE Ok([s6 EXCEPT !.available = TRUE])

get_restaurants_stats(f) ==
    IF ~Exists(f) THEN Ok(restaurants_initial) ELSE Swallow(restaurants_try(f))

\* the extractor returns without having reached conn.close(): the connection
\* is opened by the first statement of the try and closed by its last one
ConnLeftOpen(db_table, f) ==
    CASE db_table = "books"       -> Exists(f) /\ books_try(f).raised
      [] db_table = "albums"      -> Exists(f) /\ albums_try(f).raised
      [] db_table = "shows"       -> Exists(f) /\ shows_try(f).raised
      [] db_table = "restaurants" -> Exists(f) /\ restaurants_try(f).raised
      [] OTHER                    -> FALSE

\* the if/elif chain on db_table of generate_site
unknown_stats == [available |-> FALSE]

ExtractStats(db_table, f) ==
    CASE db_table = "books"       -> get_books_stats(f)
      [] db_table = "albums"      -> get_albums_stats(f)
      [] db_table = "shows"       -> get_shows_stats(f)
      [] db_table = "restaurants" -> get_restaurants_stats(f)
      [] OTHER                    -> Ok(unknown_stats)

\* --------------------------------------------------------------- aggregator
\* collections_stats is a function name -> stats
RECURSIVE SumOver(_, _)
SumOver(S, val) ==
    IF S = {} THEN 0
    ELSE LET x == CHOOSE y \in S : TRUE IN val[x] + SumOver(S \ {x}, val)

\* "if stats.get('avg_rating'): ratings.append(stats['avg_rating'])"
RatedNames(collections_stats) ==
    {n \in DOMAIN collections_stats : Truthy(Get(collections_stats[n], "avg_rating", None))}

calculate_aggregate_stats(collections_stats) ==
    LET names == DOMAIN collections_stats
        total_items == SumOver(names, [n \in names |-> Get(collections_stats[n], "total_count", 0)])
        rated == RatedNames(collections_stats)
        ratings == [n \in rated |-> collections_stats[n].avg_rating[1]]
    IN  [total_items |-> total_items,
         overall_avg_rating |-> IF rated # {}
                                THEN Some(RoundDiv(SumOver(rated, ratings), Cardinality(rated)))
                                ELSE None,
         collection_count |-> Cardinality({n \in names : Get(collections_stats[n], "available", FALSE)})]

\* ------------------------------------------------------------ fingerprints
Md5(x) == <<"md5", x>>

\* mutant: the digest is taken of the path, not of the bytes read
get_db_hash_of_path(f) == IF ~Exists(f) THEN None ELSE Some(Md5("db_path"))

\* get_db_hash: None for a file that does not exist
get_db_hash(f) == IF ~Exists(f) THEN None ELSE Some(Md5(f[1]))

\* "db_hash or 'missing'": the hex digest, or the sentinel
HashOrMissing(h) == IF h = None THEN <<"missing">> ELSE h[1]

\* "|".join(hashes)
RECURSIVE Join(_)
Join(hashes) ==
    IF hashes = <<>> THEN <<>>
    ELSE IF Len(hashes) = 1 THEN <<hashes[1]>>
    ELSE <<hashes[1], <<"|">>>> \o Join(Tail(hashes))

\* mutant: the hashes are sorted before they are joined, so that their order
\* is lost (the set stands for the sorted list of the distinct hashes)
get_combined_hash_sorted(files) ==
    Md5({HashOrMissing(get_db_hash(files[k])) : k \in 1..Len(files)})

\* files: the file at each collection's db_path, in the order of collections
get_combined_hash(files) ==
    Md5(Join([k \in 1..Len(files) |-> HashOrMissing(get_db_hash(files[k]))]))

\* ---------------------------------------------------------------- rendering
\* escape(None) raises: a shown recent item whose meta field is NULL
\* (authors, theater_name, location; for albums an empty artists_list with a
\* NULL artists field), and ", ".join raises on an artist that is no str
ItemRaises(name, item) ==
    CASE name = "Books"          -> item.authors = NULLSTR
      [] name = "Albums"         -> \/ (item.artists_list = <<>> /\ item.artists = NULLSTR)
                                    \/ \E a \in Range(item.artists_list) : a.t # "str"
      [] name = "Broadway Shows" -> item.theater_name = NULLSTR
      [] name = "Restaurants"    -> item.location = NULLSTR
      [] OTHER                   -> FALSE

\* "for item in stats['recent_items'][:config['site'].get('recent_items_count', 5)]"
ShownItems(stats, count) == Prefix(stats.recent_items, count)

generate_collection_card(name, stats, count) ==
    IF ~stats.available THEN [name |-> name, available |-> FALSE, stats |-> unknown_stats, recent |-> <<>>]
    ELSE [name |-> name, available |-> TRUE, stats |-> stats, recent |-> ShownItems(stats, count)]

CardRaises(name, stats, count) ==
    /\ stats.available
    /\ \E k \in 1..Len(ShownItems(stats, count)) : ItemRaises(name, ShownItems(stats, count)[k])

\* the page: one card per configured collection, the aggregate block, the
\* "Generated on" timestamp
generate_html(colls, count, collections_stats, aggregate_stats, timestamp) ==
    [cards |-> [k \in 1..Len(colls) |->
                    generate_collection_card(colls[k].name, collections_stats[colls[k].name], count)],
     aggregate |-> aggregate_stats,
     timestamp |-> timestamp]

HtmlRaises(colls, count, collections_stats) ==
    \E k \in 1..Len(colls) : CardRaises(colls[k].name, collections_stats[colls[k].name], count)

\* --------------------------------------------------------- persisted state
\* The state file is absent (None) or Some([valid, json]): valid = FALSE is a
\* file json.load cannot parse (truncated by an interrupted save_state).
\* A state dict has the three keys, each None when the key is absent.
EmptyState == [last_generated |-> None, databases_hash |-> None, individual_hashes |-> None]
PartialFile == Some([valid |-> FALSE, json |-> EmptyState])
StateFileOf(state) == Some([valid |-> TRUE, json |-> state])

\* load_state: {} when the file does not exist, else json.load of it.
\* Evaluated only on a file that is absent or valid; LoadRaises is the rest.
LoadRaises(file) == file # None /\ ~file[1].valid
load_state(file) == IF file = None THEN EmptyState ELSE file[1].json

\* mutant: the key is misspelt, state.get returns None
UpToDate_wrong_key(f, st, hash) == ~f /\ None = Some(hash)

\* mutant: the force flag is not looked at
UpToDate_ignores_force(f, st, hash) == st.databases_hash = Some(hash)

\* "not force and state.get('databases_hash') == current_hash": the skip test
UpToDate(f, st, hash) == ~f /\ st.databases_hash = Some(hash)

\* ------------------------------------------------------------ configuration
Coll(name, db_table) == [name |-> name, db_table |-> db_table]

Books == Coll("Books", "books")
Albums == Coll("Albums", "albums")
Shows == Coll("Broadway Shows", "shows")
Restaurants == Coll("Restaurants", "restaurants")
Podcasts == Coll("Podcasts", "podcasts")        \* a db_table the program does not know

\* the configurations of the orchestrator runs
Configs == {<<Books, Albums>>, <<Podcasts, Shows>>}

\* the source files of the orchestrator runs, by db_table
Catalogue(db_table) ==
    CASE db_table = "books" ->
            {MISSING,
             Db("books", {}, <<Row("Dune", 800, "read", 2, "Herbert"), Row("Emma", NULL, "to_read", 1, "Austen")>>),
             Db("books", {"status"}, <<Row("Dune", 800, "read", 2, "Herbert")>>),
             Db("books", {}, <<Row("Ulysses", 700, "read", 1, NULLSTR)>>)}
      [] db_table = "albums" ->
            {MISSING,
             Db("albums", {}, <<Row("Blue", 600, "", 1, "[\"Ann\"]")>>)}
      [] db_table = "shows" ->
            {MISSING,
             Db("shows", {}, <<Row("Cats", 900, "seen", 3, "Majestic"), Row("Rent", NULL, "wishlist", NULL, NULLSTR)>>)}
      [] OTHER ->
            {MISSING, Db("none", {}, <<>>)}

\* ------------------------------------------------------------------- state
VARIABLES
    collections,         \* config['collections']
    recent_items_count,  \* config['site']['recent_items_count']
    src,                 \* the file at each collection's db_path
    stateFile,           \* STATE_FILE
    artifact,            \* <output_dir>/index.html: None, or Some([complete, html])
    now,                 \* the clock; it also counts the runs
    pc,                  \* position of the running generate_site, "idle" between runs
    force,               \* the force argument of the last run started
    current_hash,        \* its local current_hash (None outside a run)
    collections_stats,   \* its local collections_stats
    i,                   \* index of the collection the extraction loop is at
    aggregate_stats,     \* its local aggregate_stats (None before it is computed)
    html,                \* its local html (None before it is rendered)
    outcome,             \* how the last finished run ended: generated, skipped, failed
    failure,             \* the step that raised in the last finished run, "" if none
    prev,                \* outcome of the run before the last finished one
    edits,               \* number of source modifications so far
    srcAtCheck,          \* history: the sources as the running run fingerprinted them
    runEdited,           \* history: a source was modified since the last fingerprinting
    lastGen,             \* history: Some([src, clean]) of the last run that generated
    wrote,               \* history: the last run to start wrote index.html
    saved,               \* history: the last run to start called save_state
    extracted,           \* history: the sources as the extraction loop of the last run to start read them
    artifactSrc,         \* history: Some(the sources as read by the run that wrote the artifact on disk)
    unclosed,            \* history: the collections whose extractor, in the last run to start, returned with its connection not closed
    previous             \* history: Some([hash, collections, src]) before the combined hash was last recomputed

vars == <<collections, recent_items_count, src, stateFile, artifact, now, pc, force,
          current_hash, collections_stats, i, aggregate_stats, html, outcome, failure,
          prev, edits, srcAtCheck, runEdited, lastGen, wrote, saved,
          extracted, artifactSrc, unclosed, previous>>

config == <<collections, recent_items_count, previous>>
locals == <<current_hash, collections_stats, i, aggregate_stats, html>>
history == <<srcAtCheck, runEdited, lastGen, wrote, saved>>

NoStats == [n \in {} |-> unknown_stats]
Names == {collections[k].name : k \in 1..Len(collections)}

IdleLocals ==
    /\ pc = "idle"
    /\ force = FALSE
    /\ current_hash = None
    /\ collections_stats = NoStats
    /\ i = 0
    /\ aggregate_stats = None
    /\ html = None

Init ==
    /\ collections \in Configs
    /\ recent_items_count = DefaultRecentCount
    /\ src \in {s \in [1..Len(collections) -> UNION {Catalogue(c.db_table) : c \in Range(collections)}] :
                    \A k \in 1..Len(collections) : s[k] \in Catalogue(collections[k].db_table)}
    /\ stateFile \in {None, StateFileOf(EmptyState)}
    /\ artifact = None
    /\ previous = None
    /\ now = 0
    /\ IdleLocals
    /\ outcome = "none" /\ failure = "" /\ prev = "none"
    /\ edits = 0
    /\ srcAtCheck = src /\ runEdited = FALSE /\ lastGen = None
    /\ wrote = FALSE /\ saved = FALSE
    /\ unclosed = {}
    /\ extracted = <<>> /\ artifactSrc = None

\* the run ends: generate_site returns, or an exception leaves it
EndRun(how, step) ==
    /\ pc' = "idle"
    /\ current_hash' = None
    /\ collections_stats' = NoStats
    /\ i' = 0
    /\ aggregate_stats' = None
    /\ html' = None
    /\ outcome' = how
    /\ failure' = step
    /\ prev' = outcome

Outcome == <<outcome, failure, prev>>

\* ---------------------------------------------------------------- actions
\* Another program rewrites, creates or deletes a source file, at any time.
\* The run reads the sources when it fingerprints them (Check), in each pass of
\* the extraction loop and when it computes individual_hashes (Persist): a
\* modification made elsewhere in the run is the same modification made just
\* before the next of these reads, and is taken there.
ModifySource ==
    /\ edits < MaxEdits
    /\ pc \in {"idle", "extract", "persist"}
    /\ \E k \in 1..Len(collections) :
         \E f \in Catalogue(collections[k].db_table) \ {src[k]} :
            src' = [src EXCEPT ![k] = f]
    /\ edits' = edits + 1
    /\ runEdited' = TRUE
    /\ UNCHANGED <<config, stateFile, artifact, now, pc, force, locals, Outcome,
                   srcAtCheck, lastGen, wrote, saved, unclosed, extracted, artifactSrc>>

\* generate_site(config, force) up to the skip test: get_combined_hash,
\* load_state, and "return False" when the site is up to date.
Check ==
    /\ pc = "idle"
    /\ now < MaxRuns
    /\ now' = now + 1
    /\ srcAtCheck' = src
    /\ runEdited' = FALSE
    /\ \E f \in BOOLEAN :
         /\ force' = f
         /\ IF LoadRaises(stateFile)
            THEN EndRun("failed", "load_state")
            ELSE IF UpToDate(f, load_state(stateFile), get_combined_hash(src))
            THEN EndRun("skipped", "")
            ELSE
              /\ pc' = "extract"
              /\ current_hash' = Some(get_combined_hash(src))
              /\ collections_stats' = NoStats
              /\ i' = 1
              /\ aggregate_stats' = None
              /\ html' = None
              /\ UNCHANGED Outcome
    /\ wrote' = FALSE
    /\ saved' = FALSE
    /\ unclosed' = {}
    /\ extracted' = <<>>
    /\ UNCHANGED <<config, src, stateFile, artifact, edits, lastGen, artifactSrc>>

\* get_db_hash cannot read a source file (an I/O error): the run ends there.
CheckReadFails ==
    /\ pc = "idle"
    /\ now < MaxRuns
    /\ now' = now + 1
    /\ srcAtCheck' = src
    /\ runEdited' = FALSE
    /\ \E k \in 1..Len(src) : Exists(src[k])
    /\ force' \in BOOLEAN
    /\ EndRun("failed", "get_combined_hash")
    /\ wrote' = FALSE
    /\ saved' = FALSE
    /\ unclosed' = {}
    /\ extracted' = <<>>
    /\ UNCHANGED <<config, src, stateFile, artifact, edits, lastGen, artifactSrc>>

\* one pass of the loop "for collection in collections"
ExtractOne ==
    /\ pc = "extract"
    /\ LET c == collections[i]
           r == ExtractStats(c.db_table, src[i])
       IN  IF r.raised
           THEN EndRun("failed", "extract")
           ELSE /\ collections_stats' =
                      [n \in DOMAIN collections_stats \cup {c.name} |->
                          IF n = c.name THEN r.stats ELSE collections_stats[n]]
                /\ i' = i + 1
                /\ pc' = IF i = Len(collections) THEN "aggregate" ELSE "extract"
                /\ UNCHANGED <<current_hash, aggregate_stats, html, Outcome>>
    /\ unclosed' = IF ConnLeftOpen(collections[i].db_table, src[i])
                   THEN unclosed \cup {collections[i].name}
                   ELSE unclosed
    /\ extracted' = Append(extracted, src[i])
    /\ UNCHANGED <<config, src, stateFile, artifact, now, force, edits, history, artifactSrc>>

\* aggregate_stats = calculate_aggregate_stats(collections_stats)
Aggregate ==
    /\ pc = "aggregate"
    /\ aggregate_stats' = Some(calculate_aggregate_stats(collections_stats))
    /\ pc' = "render"
    /\ UNCHANGED <<config, src, stateFile, artifact, now, force, current_hash,
                   collections_stats, i, html, Outcome, edits, history, unclosed, extracted, artifactSrc>>

\* html = generate_html(config, collections_stats, aggregate_stats)
Render ==
    /\ pc = "render"
    /\ IF HtmlRaises(collections, recent_items_count, collections_stats)
       THEN EndRun("failed", "generate_html")
       ELSE /\ html' = Some(generate_html(collections, recent_items_count, collections_stats,
                                          aggregate_stats[1], now))
            /\ pc' = "mkdir"
            /\ UNCHANGED <<current_hash, collections_stats, i, aggregate_stats, Outcome>>
    /\ UNCHANGED <<config, src, stateFile, artifact, now, force, edits, history, unclosed, extracted, artifactSrc>>

\* os.makedirs(output_dir, exist_ok=True)
Mkdir ==
    /\ pc = "mkdir"
    /\ pc' = "write"
    /\ UNCHANGED <<config, src, stateFile, artifact, now, force, current_hash,
                   collections_stats, i, aggregate_stats, html, Outcome, edits, history, unclosed, extracted, artifactSrc>>

MkdirFails ==
    /\ pc = "mkdir"
    /\ EndRun("failed", "makedirs")
    /\ UNCHANGED <<config, src, stateFile, artifact, now, force, edits, history, unclosed, extracted, artifactSrc>>

\* with open(output_path, 'w') as f: f.write(html)
Write ==
    /\ pc = "write"
    /\ artifact' = Some([complete |-> TRUE, html |-> html[1]])
    /\ wrote' = TRUE
    /\ artifactSrc' = Some(extracted)
    /\ pc' = "persist"
    /\ UNCHANGED <<config, src, stateFile, now, force, current_hash, collections_stats,
                   i, aggregate_stats, html, Outcome, edits, srcAtCheck, runEdited, lastGen, saved, unclosed, extracted>>

\* open fails (the file is left alone) or the write does (it is left truncated)
WriteFails ==
    /\ pc = "write"
    /\ artifact' \in {artifact, Some([complete |-> FALSE, html |-> html[1]])}
    /\ artifactSrc' = IF artifact' = artifact THEN artifactSrc ELSE Some(extracted)
    /\ EndRun("failed", "write")
    /\ UNCHANGED <<config, src, stateFile, now, force, edits, history, unclosed, extracted>>

\* individual_hashes, read from the files as they are now
individual_hashes(colls, files) ==
    [n \in {colls[k].name : k \in 1..Len(colls)} |->
        get_db_hash(files[CHOOSE k \in 1..Len(colls) :
                            /\ colls[k].name = n
                            /\ \A m \in (k + 1)..Len(colls) : colls[m].name # n])]

new_state(colls, files, hash, timestamp) ==
    [last_generated |-> Some(timestamp),
     databases_hash |-> Some(hash),
     individual_hashes |-> Some(individual_hashes(colls, files))]

\* the "Save state" block: individual_hashes, new_state, save_state; return True
Persist ==
    /\ pc = "persist"
    /\ stateFile' = StateFileOf(new_state(collections, src, current_hash[1], now))
    /\ saved' = TRUE
    /\ lastGen' = Some([src |-> srcAtCheck, clean |-> ~runEdited])
    /\ EndRun("generated", "")
    /\ UNCHANGED <<config, src, artifact, now, force, edits, srcAtCheck, runEdited, wrote, unclosed, extracted, artifactSrc>>

\* save_state does not return: open(STATE_FILE, 'w') failed (the file is left
\* alone), or json.dump raised or the process was terminated after open had
\* truncated the file
PersistFails ==
    /\ pc = "persist"
    /\ stateFile' \in {stateFile, PartialFile}
    /\ EndRun("failed", "save_state")
    /\ UNCHANGED <<config, src, artifact, now, force, edits, history, unclosed, extracted, artifactSrc>>

\* The other program puts back the contents a source had when the run last
\* fingerprinted it (taken at the same points as ModifySource).
ModifyBack ==
    /\ pc \in {"idle", "extract", "persist"}
    /\ \E k \in 1..Len(collections) :
         /\ src[k] # srcAtCheck[k]
         /\ src' = [src EXCEPT ![k] = srcAtCheck[k]]
    /\ runEdited' = TRUE
    /\ UNCHANGED <<config, stateFile, artifact, now, pc, force, locals, Outcome, edits,
                   srcAtCheck, lastGen, wrote, saved, unclosed, extracted, artifactSrc>>

Next ==
    \/ ModifySource
    \/ Check
    \/ CheckReadFails
    \/ ExtractOne
    \/ Aggregate
    \/ Render
    \/ Mkdir
    \/ MkdirFails
    \/ Write
    \/ WriteFails
    \/ Persist
    \/ PersistFails

Spec == Init /\ [][Next]_vars

\* ------------------------------------------------- sources modified and put back
\* SpecRace is Spec with a source that may also be put back as it was.
RaceNext ==
    \/ ModifySource
    \/ ModifyBack
    \/ Check
    \/ CheckReadFails
    \/ ExtractOne
    \/ Aggregate
    \/ Render
    \/ Mkdir
    \/ MkdirFails
    \/ Write
    \/ WriteFails
    \/ Persist
    \/ PersistFails

SpecRace == Init /\ [][RaceNext]_vars

\* ------------------------------------------------ extraction and aggregation
\* SpecStats runs the extraction loop and the aggregation of one regenerating
\* run over generated databases: rows of every status, rating and recency, with
\* and without the columns the queries use.
StatusVals(db_table) ==
    CASE db_table = "books"       -> {"read", "to_read"}
      [] db_table = "shows"       -> {"seen", "wishlist"}
      [] db_table = "restaurants" -> {"visited", "want_to_visit"}
      [] OTHER                    -> {""}

GrpVals(db_table) ==
    CASE db_table = "albums" -> {"[\"Ann\"]", "7"}
      [] db_table = "shows"  -> {"Majestic", NULLSTR}
      [] OTHER               -> {"Herbert"}

RatingVals == {NULL, 0, 4, 800}

GenRows(db_table, maxts) ==
    {Row("x", rt, st, ts, g) :
        rt \in RatingVals, st \in StatusVals(db_table), ts \in 1..maxts, g \in GrpVals(db_table)}

MissingCols == {{}, {"status"}, {"rating"}}

\* a database larger than the LIMIT of the recent-items queries
BigRows == 7
BigDb(db_table) ==
    Db(db_table, {}, [k \in 1..BigRows |->
        Row("x", 800, CHOOSE st \in StatusVals(db_table) : st # "wishlist", k, "Herbert")])

GenFiles(db_table) ==
    {MISSING, Db("none", {}, <<>>), BigDb(db_table)}
    \cup {Db(db_table, m, rows) :
            m \in MissingCols,
            rows \in UNION {[1..n -> GenRows(db_table, MaxRows)] : n \in 0..MaxRows}}

\* the files of a configuration of several collections: at most one row each
FewFiles(db_table) ==
    {MISSING}
    \cup {Db(db_table, m, <<Row("x", rt, CHOOSE st \in StatusVals(db_table) : st # "wishlist", 1, "Herbert")>>) :
            m \in MissingCols, rt \in RatingVals \cup {600}}

StatsConfigs == {<<Books>>, <<Albums>>, <<Shows>>, <<Restaurants>>, <<Podcasts>>,
                 <<Books, Albums, Shows>>, <<Restaurants, Podcasts>>}

RecentCounts == (1..MaxRecentCount) \cup {DefaultRecentCount}

StatsFiles(colls) ==
    IF Len(colls) = 1
    THEN {<<f>> : f \in GenFiles(colls[1].db_table)}
    ELSE {s \in [1..Len(colls) -> UNION {FewFiles(c.db_table) : c \in Range(colls)}] :
            \A k \in 1..Len(colls) : s[k] \in FewFiles(colls[k].db_table)}

\* a forced first run that has passed the skip test
StatsInit ==
    /\ collections \in StatsConfigs
    /\ recent_items_count \in RecentCounts
    /\ src \in StatsFiles(collections)
    /\ stateFile = None
    /\ artifact = None
    /\ previous = None
    /\ now = 1
    /\ pc = "extract"
    /\ force = TRUE
    /\ current_hash = Some(get_combined_hash(src))
    /\ collections_stats = NoStats
    /\ i = 1
    /\ aggregate_stats = None
    /\ html = None
    /\ outcome = "none" /\ failure = "" /\ prev = "none"
    /\ edits = 0
    /\ srcAtCheck = src /\ runEdited = FALSE /\ lastGen = None
    /\ wrote = FALSE /\ saved = FALSE
    /\ unclosed = {}
    /\ extracted = <<>> /\ artifactSrc = None

StatsNext == ExtractOne \/ Aggregate

SpecStats == StatsInit /\ [][StatsNext]_vars

\* ------------------------------------------------------ combined fingerprint
\* SpecHash recomputes the combined hash of a configuration whose collections
\* are reordered (each keeps its db_path) and whose sources are left alone.
HashConfigs == {<<Books, Albums, Shows>>, <<Books, Podcasts>>}

Identity(n) == [k \in 1..n |-> k]

HashInit ==
    /\ collections \in HashConfigs
    /\ recent_items_count = DefaultRecentCount
    /\ src \in {s \in [1..Len(collections) -> UNION {Catalogue(c.db_table) : c \in Range(collections)}] :
                    \A k \in 1..Len(collections) : s[k] \in Catalogue(collections[k].db_table)}
    /\ stateFile = None
    /\ artifact = None
    /\ previous = None
    /\ now = 0
    /\ pc = "idle"
    /\ force = FALSE
    /\ current_hash = Some(get_combined_hash(src))
    /\ collections_stats = NoStats
    /\ i = 0
    /\ aggregate_stats = None
    /\ html = None
    /\ outcome = "none" /\ failure = "" /\ prev = "none"
    /\ edits = 0
    /\ srcAtCheck = src /\ runEdited = FALSE /\ lastGen = None
    /\ wrote = FALSE /\ saved = FALSE
    /\ unclosed = {}
    /\ extracted = <<>> /\ artifactSrc = None

Remember == previous' = Some([hash |-> current_hash[1], collections |-> collections, src |-> src])

\* the operator reorders config['collections']; get_combined_hash runs again
Reorder ==
    /\ \E perm \in Permutations(1..Len(collections)) \ {Identity(Len(collections))} :
         /\ collections' = [k \in 1..Len(collections) |-> collections[perm[k]]]
         /\ src' = [k \in 1..Len(collections) |-> src[perm[k]]]
    /\ Remember
    /\ current_hash' = Some(get_combined_hash(src'))
    /\ UNCHANGED <<recent_items_count, stateFile, artifact, now, pc, force, collections_stats,
                   i, aggregate_stats, html, Outcome, edits, history, unclosed, extracted, artifactSrc>>

\* get_combined_hash runs again on the same configuration and sources
Rehash ==
    /\ Remember
    /\ current_hash' = Some(get_combined_hash(src))
    /\ UNCHANGED <<collections, recent_items_count, src, stateFile, artifact, now, pc, force,
                   collections_stats, i, aggregate_stats, html, Outcome, edits, history, unclosed, extracted, artifactSrc>>

HashNext == Reorder \/ Rehash

SpecHash == HashInit /\ [][HashNext]_vars

\* =================================================================== claims
\* the databases_hash of the state file: None when there is no file or no key
StoredHash ==
    IF stateFile = None \/ ~stateFile[1].valid THEN None ELSE stateFile[1].json.databases_hash

StoredIndividual ==
    IF stateFile = None \/ ~stateFile[1].valid THEN None ELSE stateFile[1].json.individual_hashes

\* a step that starts a run of generate_site, and how the run left the skip test
StartsRun == pc = "idle" /\ now' = now + 1
FailsAtCheck == pc' = "idle" /\ outcome' = "failed"
Skips == pc' = "idle" /\ outcome' = "skipped"
Regenerates == pc' = "extract"

\* the last run generated, and no source was modified while it ran
CleanGeneration == outcome = "generated" /\ lastGen # None /\ lastGen[1].clean

\* C1: a run with force = false that follows a successful generation, with
\* every source as that generation fingerprinted it, skips: it ends at the skip
\* test, writes no artifact, calls no save_state, and leaves the state file
\* (last_generated, databases_hash, individual_hashes) as it was.  (A run whose
\* read of a source fails with an I/O error ends before the skip test.)
C1_SecondRunSkips ==
    [][ (/\ StartsRun
         /\ CleanGeneration
         /\ src = lastGen[1].src
         /\ ~force'
         /\ ~(FailsAtCheck /\ failure' = "get_combined_hash"))
        => (/\ Skips
            /\ stateFile' = stateFile
            /\ artifact' = artifact
            /\ ~wrote' /\ ~saved') ]_vars

C1_Witness ==
    /\ pc = "idle" /\ outcome = "skipped" /\ prev = "generated" /\ ~force
    /\ lastGen # None /\ lastGen[1].clean /\ srcAtCheck = lastGen[1].src
    /\ ~wrote /\ ~saved
    /\ StoredHash = Some(get_combined_hash(src))

\* C2: a run that reaches the skip test regenerates exactly when force is
\* true, or the state file holds no databases_hash (no file, or no such key),
\* or the stored databases_hash differs from the current combined hash, and
\* skips otherwise; a run that regenerates and returns True has written the
\* artifact and saved the state with the current combined hash.
C2_RegenerationPolicy ==
    [][ /\ (StartsRun /\ ~FailsAtCheck)
            => /\ Regenerates <=> (\/ force'
                                   \/ StoredHash = None
                                   \/ StoredHash # Some(get_combined_hash(src)))
               /\ ~Regenerates => Skips
        /\ (pc = "persist" /\ outcome' = "generated" /\ pc' = "idle")
            => /\ wrote /\ saved'
               /\ artifact # None /\ artifact[1].complete /\ artifact[1].html.timestamp = now
               /\ StoredHash' = current_hash ]_vars

\* a forced run regenerates although the stored hash is the current one
C2_Witness ==
    /\ pc = "idle" /\ outcome = "generated" /\ prev = "generated" /\ force
    /\ edits = 0 /\ now > 1
    /\ wrote /\ saved
    /\ artifact[1].complete /\ artifact[1].html.timestamp = now
    /\ StoredHash = Some(get_combined_hash(src))

\* C3: when the last run generated (no source modified while it ran) and the
\* content of a source differs from what that run fingerprinted - changed,
\* created or deleted - the fingerprint of every such source differs from the
\* stored individual hash, the combined hash differs from the stored
\* databases_hash, and a run with force = false regenerates.
C3_ChangeDetected ==
    [][ (/\ StartsRun
         /\ CleanGeneration
         /\ src # lastGen[1].src
         /\ ~force'
         /\ ~(FailsAtCheck /\ failure' = "get_combined_hash"))
        => (/\ Regenerates
            /\ StoredHash # Some(get_combined_hash(src))
            /\ \A k \in 1..Len(collections) :
                  src[k] # lastGen[1].src[k]
                  => get_db_hash(src[k]) # StoredIndividual[1][collections[k].name]) ]_vars

C3_Witness ==
    /\ pc = "extract" /\ ~force /\ CleanGeneration
    /\ srcAtCheck # lastGen[1].src
    /\ StoredHash # None /\ StoredHash # current_hash

\* C4: no step before the save touches the state file, and the run after one
\* that failed while regenerating (rendering, creating the output directory,
\* writing the artifact), if its force is false, does not skip.
C4_FailedRunIsRetried ==
    [][ /\ pc # "persist" => stateFile' = stateFile
        /\ (/\ StartsRun
            /\ outcome = "failed"
            /\ failure \in {"extract", "generate_html", "makedirs", "write"}
            /\ ~force')
            => ~Skips ]_vars

\* the keys of a stats dict that hold counters
CounterKeys(stats) == DOMAIN stats \ {"available", "avg_rating", "recent_items"}

\* C5: every stats dict with available = false has total_count and every
\* other counter zero, no avg_rating and no recent items.
C5_UnavailableIsDefault ==
    \A n \in DOMAIN collections_stats :
        LET stats == collections_stats[n]
        IN  ~stats.available
            => /\ \A key \in CounterKeys(stats) : stats[key] = 0
               /\ Get(stats, "avg_rating", None) = None
               /\ Get(stats, "recent_items", <<>>) = <<>>

\* C6: no extractor lets an exception out, so no run fails in the extraction
\* loop; the loop gives every configured collection its entry, in the order of
\* the configuration, and the run goes on to the aggregation.
C6_ExtractionNeverAborts ==
    /\ outcome = "failed" => failure # "extract"
    /\ pc = "extract"
        => /\ i \in 1..Len(collections)
           /\ DOMAIN collections_stats = {collections[k].name : k \in 1..(i - 1)}
           /\ ~ExtractStats(collections[i].db_table, src[i]).raised
    /\ pc \in {"aggregate", "render"} => DOMAIN collections_stats = Names
    /\ \A n \in DOMAIN collections_stats : "available" \in DOMAIN collections_stats[n]

\* the extraction of the first collection failed on a query, and the loop went
\* on to the last one
C6_Witness ==
    /\ pc = "aggregate" /\ Len(collections) > 1
    /\ ~collections_stats[collections[1].name].available
    /\ collections_stats[collections[1].name].total_count > 0
    /\ collections_stats[collections[Len(collections)].name].available

AvailableNames == {n \in DOMAIN collections_stats : collections_stats[n].available}

TotalCounts == [n \in DOMAIN collections_stats |-> Get(collections_stats[n], "total_count", 0)]

\* C7: total_items is the sum of total_count over all entries, the entries
\* with available = false contributing 0 (so it is the sum over the available
\* ones), and collection_count is the number of available entries.
C7_AggregateCounts ==
    aggregate_stats # None
    => /\ aggregate_stats[1].total_items = SumOver(DOMAIN collections_stats, TotalCounts)
       /\ aggregate_stats[1].total_items = SumOver(AvailableNames, TotalCounts)
       /\ aggregate_stats[1].collection_count = Cardinality(AvailableNames)

\* the collections that have an avg_rating
HaveRating == {n \in DOMAIN collections_stats : Get(collections_stats[n], "avg_rating", None) # None}

\* C8: overall_avg_rating is absent exactly when no collection has an
\* avg_rating, and is otherwise the mean of the avg_rating values of the
\* collections that have one.
C8_OverallAverage ==
    aggregate_stats # None
    => /\ aggregate_stats[1].overall_avg_rating = None <=> HaveRating = {}
       /\ HaveRating # {}
            => /\ aggregate_stats[1].overall_avg_rating # None
               /\ aggregate_stats[1].overall_avg_rating[1] * Cardinality(HaveRating)
                    = SumOver(HaveRating, [n \in HaveRating |-> collections_stats[n].avg_rating[1]])

\* the rows the recent-items query of a collection selects from
Eligible(db_table, f) == IF db_table = "shows" THEN Seen(f[1].rows) ELSE f[1].rows

ItemTs(item) == IF "date_attended" \in DOMAIN item THEN item.date_attended ELSE item.date_added

Min(a, b) == IF a < b THEN a ELSE b

\* C9: the recent_items of every extracted collection are the
\* min(recent_items_count, number of eligible rows) most recent eligible rows,
\* most recent first.
C9_RecentItemsBound ==
    \A k \in 1..Len(collections) :
        (collections[k].name \in DOMAIN collections_stats
         /\ collections_stats[collections[k].name].available)
        => LET recent == collections_stats[collections[k].name].recent_items
               rows == OrderByDesc(Eligible(collections[k].db_table, src[k]))
           IN  /\ Len(recent) <= recent_items_count
               /\ Len(recent) = Min(recent_items_count, Len(rows))
               /\ \A j \in 1..Len(recent) : ItemTs(recent[j]) = rows[j].ts

\* the fingerprints get_combined_hash joins, in order
Fingerprints(files) == [k \in 1..Len(files) |-> HashOrMissing(get_db_hash(files[k]))]

\* C10 as claimed: the combined hash of a reordered configuration differs
\* from the one before.
C10_ReorderChangesHash ==
    (previous # None /\ previous[1].collections # collections)
    => current_hash[1] # previous[1].hash

\* C10 as amended: the combined hash is the same for the same fingerprints in
\* the same order, and differs whenever the sequence of fingerprints differs;
\* reordering the collections changes it exactly when it changes that sequence.
C10_HashFollowsFingerprintOrder ==
    previous # None
    => (current_hash[1] = previous[1].hash
        <=> Fingerprints(src) = Fingerprints(previous[1].src))

\* two collections of different fingerprints changed places, and the hash changed
C10_Witness ==
    /\ previous # None
    /\ previous[1].collections # collections
    /\ Fingerprints(src) # Fingerprints(previous[1].src)
    /\ current_hash[1] # previous[1].hash

\* the rows the average-rating query of a collection selects from, and the
\* rated ones among them
Qualifying(db_table, f) ==
    CASE db_table = "shows"       -> Seen(f[1].rows)
      [] db_table = "restaurants" -> Visited(f[1].rows)
      [] OTHER                    -> f[1].rows

RatedRows(rows) == SelectSeq(rows, LAMBDA r : r.rating # NULL)

\* C11: the avg_rating of every extracted collection is absent exactly when
\* its qualifying subset holds no rated item, and is otherwise the mean of the
\* ratings of that subset rounded to one decimal (0.0 when they are all 0).
C11_AvgRatingOfRatedSubset ==
    \A k \in 1..Len(collections) :
        (collections[k].name \in DOMAIN collections_stats
         /\ collections_stats[collections[k].name].available)
        => LET stats == collections_stats[collections[k].name]
               rated == RatedRows(Qualifying(collections[k].db_table, src[k]))
           IN  /\ stats.avg_rating = None <=> rated = <<>>
               /\ rated # <<>>
                    => stats.avg_rating
                         = Some(RoundDiv(SumSeq([j \in 1..Len(rated) |-> rated[j].rating]),
                                         10 * Len(rated)))

\* the list C12 gives an artists field: empty for an empty or absent value,
\* the parsed list for a JSON list, else the raw string alone
RawOrList(value) ==
    IF value = NULLSTR \/ value = "" THEN <<>>
    ELSE IF json_loads(value).ok /\ json_loads(value).list THEN json_loads(value).items
    ELSE <<PyStr(value)>>

\* C12: whatever the artists fields of an albums table hold, the extraction
\* of a readable albums database is available, and the artists_list of every
\* recent item is the empty list, the parsed list or the raw string alone.
C12_PermissiveArtists ==
    \A k \in 1..Len(collections) :
        (/\ collections[k].db_table = "albums"
         /\ collections[k].name \in DOMAIN collections_stats
         /\ Exists(src[k])
         /\ QueryOk(src[k], "albums", {"name", "grp", "rating", "ts"}))
        => LET stats == collections_stats[collections[k].name]
           IN  /\ stats.available
               /\ \A j \in 1..Len(stats.recent_items) :
                     stats.recent_items[j].artists_list = RawOrList(stats.recent_items[j].artists)

\* C13: the state file is never an empty or partly written record, and no
\* run fails in load_state.
C13_StateNeverPartial ==
    /\ stateFile = None \/ stateFile[1].valid
    /\ outcome = "failed" => failure # "load_state"

\* C14: no extractor returns with the connection it opened not closed.
C14_ConnectionsClosed == unclosed = {}

\* C15: whenever a run with force = false skips, the artifact on disk was
\* generated from source contents whose fingerprints are the current ones.
C15_NoStaleSkip ==
    [][ (StartsRun /\ Skips /\ ~force' /\ artifactSrc # None)
        => Fingerprints(artifactSrc[1]) = Fingerprints(src) ]_vars

====
